---- MODULE Spec2Model ----
(***************************************************************************)
(* Model of yuk1ty/statemachine: the BasicStateMachineBuilder of           *)
(* src/machine/builder.rs, the StateMachineError of src/machine/error.rs   *)
(* and the BasicStateMachine / StateWrapper the builder assembles.         *)
(***************************************************************************)
EXTENDS Integers, Sequences, FiniteSets, TLC

\* ------------------------------------------------------------------------
\* Bounds
\* ------------------------------------------------------------------------

\* Largest number of setter calls chained on one builder before build().
MaxCalls == 4

\* Largest number of build() attempts a caller makes on one builder binding.
MaxBuilds == 2

\* ------------------------------------------------------------------------
\* Caller-supplied types: State, Input, Transition
\* ------------------------------------------------------------------------

\* enum Stations of the test module.
Stations ==
  {"Shibuya", "IkejiriOhashi", "Sangendyaya", "KomazawaDaigaku",
   "Sakurashinmachi", "Yoga", "FutakoTamagawa"}

\* enum Train of the test module.
Train == {"Local", "Express"}

\* Outcome of a closure that hits unreachable!(): the call unwinds.
Panic == "panic"

\* The closure passed to transition(..) in the tests.
station_transition(station, train) ==
  CASE station = "Shibuya" /\ train = "Local" -> "IkejiriOhashi"
    [] station = "Shibuya" /\ train = "Express" -> "Sangendyaya"
    [] station = "IkejiriOhashi" /\ train = "Local" -> "Sangendyaya"
    [] station = "Sangendyaya" /\ train = "Local" -> "KomazawaDaigaku"
    [] station = "Sangendyaya" /\ train = "Express" -> "FutakoTamagawa"
    [] station = "KomazawaDaigaku" /\ train = "Local" -> "Sakurashinmachi"
    [] station = "Sakurashinmachi" /\ train = "Local" -> "Yoga"
    [] OTHER -> Panic

\* A second, total closure a caller may pass: every train returns to the
\* terminus, the express from anywhere and the local from the last stop.
return_transition(station, train) ==
  IF train = "Express" \/ station = "FutakoTamagawa"
    THEN "Shibuya"
    ELSE "FutakoTamagawa"

\* The closures a caller passes, by name.
Transitions == {"station_transition", "return_transition"}

\* Calling a stored closure: Fn(&State, Input) -> State.
call(transition, state, input) ==
  IF transition = "station_transition"
    THEN station_transition(state, input)
    ELSE return_transition(state, input)

\* The states a caller hands to initial_state(..) and current_state(..).
StateArgs == {"Shibuya", "Sangendyaya", "Yoga"}

\* ------------------------------------------------------------------------
\* Option and Result
\* ------------------------------------------------------------------------

None == << >>

Some(x) == << x >>

unwrap(o) == o[1]

Ok(v) == [tag |-> "Ok", val |-> v]

Err(e) == [tag |-> "Err", val |-> e]

\* StateMachineError::MissingField(String)
MissingField(field_name) == [variant |-> "MissingField", field_name |-> field_name]

\* ------------------------------------------------------------------------
\* StateWrapper: the cell holding the current state
\* ------------------------------------------------------------------------

StateWrapper_new(state) == [inner |-> state]

StateWrapper_get(wrapper) == wrapper.inner

\* set(..) that writes to a copy of the cell and leaves the cell as it was.
StateWrapper_set_on_copy(wrapper, state) == wrapper

StateWrapper_set(wrapper, state) == [wrapper EXCEPT !.inner = state]

\* ------------------------------------------------------------------------
\* BasicStateMachineBuilder
\* ------------------------------------------------------------------------

\* default() that starts the builder with an initial state already recorded.
default_with_initial_state ==
  [initial_state |-> Some("Shibuya"), current_state |-> None,
   transition |-> None]

\* impl Default: every field None.
default ==
  [initial_state |-> None, current_state |-> None, transition |-> None]

\* fn start() -> Self
start == default

\* initial_state(..) that keeps an earlier value instead of overwriting it.
initial_state_keeps_first(self, state) ==
  IF self.initial_state # None
    THEN self
    ELSE [self EXCEPT !.initial_state = Some(state)]

\* initial_state(..) that rebuilds the builder from default(), dropping the
\* other recorded fields.
initial_state_resets_others(self, state) ==
  [initial_state |-> Some(state), current_state |-> None, transition |-> None]

\* fn initial_state(mut self, state: State) -> Self
initial_state(self, state) == [self EXCEPT !.initial_state = Some(state)]

\* current_state(..) that keeps an earlier value instead of overwriting it.
current_state_keeps_first(self, state) ==
  IF self.current_state # None
    THEN self
    ELSE [self EXCEPT !.current_state = Some(state)]

\* current_state(..) copied from initial_state(..) without renaming the
\* field it assigns.
current_state_writes_initial_state(self, state) ==
  [self EXCEPT !.initial_state = Some(state)]

\* fn current_state(mut self, state: State) -> Self
current_state(self, state) == [self EXCEPT !.current_state = Some(state)]

\* transition(..) that keeps an earlier closure instead of overwriting it.
transition_keeps_first(self, next) ==
  IF self.transition # None
    THEN self
    ELSE [self EXCEPT !.transition = Some(next)]

\* fn transition(mut self, next: Transition) -> Self
transition(self, next) == [self EXCEPT !.transition = Some(next)]

\* build() that also demands the optional current_state field.
build_requires_current_state(self) ==
  IF self.initial_state # None /\ self.transition # None
     /\ self.current_state # None
    THEN Ok([initial_state |-> unwrap(self.initial_state),
             current_state |-> StateWrapper_new(unwrap(self.current_state)),
             transition |-> unwrap(self.transition)])
    ELSE IF self.initial_state = None
      THEN Err(MissingField("initial_state"))
      ELSE IF self.transition = None
        THEN Err(MissingField("transition"))
        ELSE Err(MissingField("current_state"))

\* build() that stores the override as the machine's initial state too.
build_override_as_initial_state(self) ==
  IF self.initial_state # None /\ self.transition # None
    THEN Ok([initial_state |->
               IF self.current_state # None
                 THEN unwrap(self.current_state)
                 ELSE unwrap(self.initial_state),
             current_state |->
               IF self.current_state # None
                 THEN StateWrapper_new(unwrap(self.current_state))
                 ELSE StateWrapper_new(unwrap(self.initial_state)),
             transition |-> unwrap(self.transition)])
    ELSE IF self.initial_state = None
      THEN Err(MissingField("initial_state"))
      ELSE Err(MissingField("transition"))

\* build() whose match arms test the transition before the initial state.
build_transition_arm_first(self) ==
  IF self.initial_state # None /\ self.transition # None
    THEN Ok([initial_state |-> unwrap(self.initial_state),
             current_state |->
               IF self.current_state # None
                 THEN StateWrapper_new(unwrap(self.current_state))
                 ELSE StateWrapper_new(unwrap(self.initial_state)),
             transition |-> unwrap(self.transition)])
    ELSE IF self.transition = None
      THEN Err(MissingField("transition"))
      ELSE Err(MissingField("initial_state"))

\* build() whose two error arms carry the same field name.
build_same_field_name(self) ==
  IF self.initial_state # None /\ self.transition # None
    THEN Ok([initial_state |-> unwrap(self.initial_state),
             current_state |->
               IF self.current_state # None
                 THEN StateWrapper_new(unwrap(self.current_state))
                 ELSE StateWrapper_new(unwrap(self.initial_state)),
             transition |-> unwrap(self.transition)])
    ELSE Err(MissingField("initial_state"))

\* build() whose two error arms carry each other's field name.
build_swapped_field_names(self) ==
  IF self.initial_state # None /\ self.transition # None
    THEN Ok([initial_state |-> unwrap(self.initial_state),
             current_state |->
               IF self.current_state # None
                 THEN StateWrapper_new(unwrap(self.current_state))
                 ELSE StateWrapper_new(unwrap(self.initial_state)),
             transition |-> unwrap(self.transition)])
    ELSE IF self.initial_state = None
      THEN Err(MissingField("transition"))
      ELSE Err(MissingField("initial_state"))

\* build() that falls back on the override when no initial state was
\* recorded.
build_override_stands_in(self) ==
  IF (self.initial_state # None \/ self.current_state # None)
     /\ self.transition # None
    THEN Ok([initial_state |->
               IF self.initial_state # None
                 THEN unwrap(self.initial_state)
                 ELSE unwrap(self.current_state),
             current_state |->
               IF self.current_state # None
                 THEN StateWrapper_new(unwrap(self.current_state))
                 ELSE StateWrapper_new(unwrap(self.initial_state)),
             transition |-> unwrap(self.transition)])
    ELSE IF self.initial_state = None
      THEN Err(MissingField("initial_state"))
      ELSE Err(MissingField("transition"))

\* build() that wraps the initial state as current state whether or not an
\* override was recorded.
build_ignores_override(self) ==
  IF self.initial_state # None /\ self.transition # None
    THEN Ok([initial_state |-> unwrap(self.initial_state),
             current_state |-> StateWrapper_new(unwrap(self.initial_state)),
             transition |-> unwrap(self.transition)])
    ELSE IF self.initial_state = None
      THEN Err(MissingField("initial_state"))
      ELSE Err(MissingField("transition"))

\* fn build(self) -> Result<Self::Output, Box<dyn Error>>
build(self) ==
  IF self.initial_state # None /\ self.transition # None
    THEN Ok([initial_state |-> unwrap(self.initial_state),
             current_state |->
               IF self.current_state # None
                 THEN StateWrapper_new(unwrap(self.current_state))
                 ELSE StateWrapper_new(unwrap(self.initial_state)),
             transition |-> unwrap(self.transition)])
    ELSE IF self.initial_state = None
      THEN Err(MissingField("initial_state"))
      ELSE Err(MissingField("transition"))

\* ------------------------------------------------------------------------
\* BasicStateMachine
\* ------------------------------------------------------------------------

\* fn current_state(&self) -> State
machine_current_state(sm) == StateWrapper_get(sm.current_state)

\* fn initial_state(&self) -> State
machine_initial_state(sm) == sm.initial_state

\* current_state() that moves the state out of the cell and leaves the
\* initial state in its place.
after_current_state_takes(sm) ==
  [sm EXCEPT !.current_state = StateWrapper_new(sm.initial_state)]

\* The machine after current_state(): an inspection leaves it as it was.
after_current_state(sm) == sm

\* The machine after initial_state(): an inspection leaves it as it was.
after_initial_state(sm) == sm

\* fn next(&mut self, input: Input) -> State, when the closure returns.
next(sm, input) ==
  [sm EXCEPT !.current_state =
     StateWrapper_set(sm.current_state,
                      call(sm.transition, machine_current_state(sm), input))]

\* ------------------------------------------------------------------------
\* State
\* ------------------------------------------------------------------------

VARIABLES
  started,    \* TRUE once start() has been called
  builder,    \* Some(builder) while the caller owns one, None otherwise
  calls,      \* the setter calls made on the builder, in order
  builds,     \* how many times build() was called
  result,     \* Some(what build() returned), None before build()
  sm,         \* Some(machine) once build() succeeded, None otherwise
  panicked,   \* TRUE once a transition closure has unwound the caller
  last_op,    \* the last call made and what it returned
  prev_op,    \* the call made before the last one and what it returned
  holder,     \* Some(cell) once a caller made a StateWrapper of its own
  twin        \* Some(machine) once a caller built a second machine

vars ==
  <<started, builder, calls, builds, result, sm, panicked, last_op, prev_op,
    holder, twin>>

NoOp == [op |-> "none", arg |-> "none", ret |-> "none"]

Init ==
  /\ started = FALSE
  /\ builder = None
  /\ calls = << >>
  /\ builds = 0
  /\ result = None
  /\ sm = None
  /\ panicked = FALSE
  /\ last_op = NoOp
  /\ prev_op = NoOp
  /\ holder = None
  /\ twin = None

\* ------------------------------------------------------------------------
\* Actions: the builder
\* ------------------------------------------------------------------------

Start ==
  /\ ~started
  /\ started' = TRUE
  /\ builder' = Some(start)
  /\ last_op' = [op |-> "start", arg |-> "none", ret |-> "builder"]
  /\ prev_op' = last_op
  /\ UNCHANGED <<holder, twin>>
  /\ UNCHANGED <<calls, builds, result, sm, panicked>>

SetInitialState ==
  /\ builder # None
  /\ Len(calls) < MaxCalls
  /\ \E state \in StateArgs :
       /\ builder' = Some(initial_state(unwrap(builder), state))
       /\ calls' = Append(calls, [field |-> "initial_state", arg |-> state])
       /\ last_op' = [op |-> "set_initial_state", arg |-> state, ret |-> "builder"]
  /\ prev_op' = last_op
  /\ UNCHANGED <<holder, twin>>
  /\ UNCHANGED <<started, builds, result, sm, panicked>>

SetCurrentState ==
  /\ builder # None
  /\ Len(calls) < MaxCalls
  /\ \E state \in StateArgs :
       /\ builder' = Some(current_state(unwrap(builder), state))
       /\ calls' = Append(calls, [field |-> "current_state", arg |-> state])
       /\ last_op' = [op |-> "set_current_state", arg |-> state, ret |-> "builder"]
  /\ prev_op' = last_op
  /\ UNCHANGED <<holder, twin>>
  /\ UNCHANGED <<started, builds, result, sm, panicked>>

SetTransition ==
  /\ builder # None
  /\ Len(calls) < MaxCalls
  /\ \E t \in Transitions :
       /\ builder' = Some(transition(unwrap(builder), t))
       /\ calls' = Append(calls, [field |-> "transition", arg |-> t])
       /\ last_op' = [op |-> "set_transition", arg |-> t, ret |-> "builder"]
  /\ prev_op' = last_op
  /\ UNCHANGED <<holder, twin>>
  /\ UNCHANGED <<started, builds, result, sm, panicked>>

\* build(&self): a build() that borrows the builder and leaves it with the
\* caller.
Build_by_reference ==
  /\ builder # None
  /\ builds < MaxBuilds
  /\ LET r == build(unwrap(builder)) IN
       /\ result' = Some(r)
       /\ sm' = IF r.tag = "Ok" THEN Some(r.val) ELSE None
       /\ last_op' = [op |-> "build", arg |-> "none", ret |-> r.tag]
  /\ builder' = builder
  /\ builds' = builds + 1
  /\ prev_op' = last_op
  /\ UNCHANGED <<holder, twin>>
  /\ UNCHANGED <<started, calls, panicked>>

\* build(self): takes the builder by value, so the caller's binding is gone
\* afterwards, whatever build() returns.
Build ==
  /\ builder # None
  /\ builds < MaxBuilds
  /\ LET r == build(unwrap(builder)) IN
       /\ result' = Some(r)
       /\ sm' = IF r.tag = "Ok" THEN Some(r.val) ELSE None
       /\ last_op' = [op |-> "build", arg |-> "none", ret |-> r.tag]
  /\ builder' = None
  /\ builds' = builds + 1
  /\ prev_op' = last_op
  /\ UNCHANGED <<holder, twin>>
  /\ UNCHANGED <<started, calls, panicked>>

\* ------------------------------------------------------------------------
\* Actions: the machine
\* ------------------------------------------------------------------------

\* next() that catches the unwinding closure and hands back the current
\* state in place of the fault.
CallNext_catches_fault ==
  /\ sm # None
  /\ ~panicked
  /\ \E input \in Train :
       LET new_state == call(unwrap(sm).transition,
                             machine_current_state(unwrap(sm)), input) IN
         IF new_state = Panic
           THEN /\ panicked' = FALSE
                /\ sm' = sm
                /\ last_op' = [op |-> "next", arg |-> input,
                               ret |-> machine_current_state(unwrap(sm))]
           ELSE /\ panicked' = FALSE
                /\ sm' = Some(next(unwrap(sm), input))
                /\ last_op' = [op |-> "next", arg |-> input,
                               ret |-> machine_current_state(next(unwrap(sm), input))]
  /\ prev_op' = last_op
  /\ UNCHANGED <<holder, twin>>
  /\ UNCHANGED <<started, builder, calls, builds, result>>

\* fn next(&mut self, input: Input) -> State: the closure is called on the
\* current state; when it unwinds, so does next(), before anything is stored.
CallNext ==
  /\ sm # None
  /\ ~panicked
  /\ \E input \in Train :
       LET new_state == call(unwrap(sm).transition,
                             machine_current_state(unwrap(sm)), input) IN
         IF new_state = Panic
           THEN /\ panicked' = TRUE
                /\ sm' = sm
                /\ last_op' = [op |-> "next", arg |-> input, ret |-> Panic]
           ELSE /\ panicked' = FALSE
                /\ sm' = Some(next(unwrap(sm), input))
                /\ last_op' = [op |-> "next", arg |-> input,
                               ret |-> machine_current_state(next(unwrap(sm), input))]
  /\ prev_op' = last_op
  /\ UNCHANGED <<holder, twin>>
  /\ UNCHANGED <<started, builder, calls, builds, result>>

CallCurrentState ==
  /\ sm # None
  /\ ~panicked
  /\ sm' = Some(after_current_state(unwrap(sm)))
  /\ last_op' = [op |-> "current_state", arg |-> "none",
                 ret |-> machine_current_state(unwrap(sm))]
  /\ prev_op' = last_op
  /\ UNCHANGED <<holder, twin>>
  /\ UNCHANGED <<started, builder, calls, builds, result, panicked>>

CallInitialState ==
  /\ sm # None
  /\ ~panicked
  /\ sm' = Some(after_initial_state(unwrap(sm)))
  /\ last_op' = [op |-> "initial_state", arg |-> "none",
                 ret |-> machine_initial_state(unwrap(sm))]
  /\ prev_op' = last_op
  /\ UNCHANGED <<holder, twin>>
  /\ UNCHANGED <<started, builder, calls, builds, result, panicked>>

Next ==
  \/ Start
  \/ SetInitialState
  \/ SetCurrentState
  \/ SetTransition
  \/ Build
  \/ CallNext
  \/ CallCurrentState
  \/ CallInitialState

Spec == Init /\ [][Next]_vars

\* ------------------------------------------------------------------------
\* Properties
\* ------------------------------------------------------------------------

\* The argument of the last call of the setter `field` on the builder, or
\* None when that setter was never called.
LastArg(field) ==
  LET idx == {i \in 1..Len(calls) : calls[i].field = field} IN
    IF idx = {}
      THEN None
      ELSE Some(calls[CHOOSE i \in idx : \A j \in idx : j <= i].arg)

\* build() has just returned.
JustBuilt == last_op.op = "build" /\ result # None

\* C1: a builder given initial_state(s) and transition(f) and never
\* current_state(..) builds a machine, and right after build() the machine's
\* current state and initial state are both s.
C1_BuildWithoutOverride ==
  (/\ JustBuilt
   /\ LastArg("initial_state") # None
   /\ LastArg("transition") # None
   /\ LastArg("current_state") = None)
  => /\ unwrap(result).tag = "Ok"
     /\ sm = Some(unwrap(result).val)
     /\ machine_current_state(unwrap(sm)) = unwrap(LastArg("initial_state"))
     /\ machine_initial_state(unwrap(sm)) = unwrap(LastArg("initial_state"))

C1_Witness ==
  /\ JustBuilt
  /\ LastArg("initial_state") = Some("Sangendyaya")
  /\ LastArg("transition") = Some("station_transition")
  /\ LastArg("current_state") = None
  /\ sm # None

\* C2: a builder given initial_state(s), current_state(c) and transition(f)
\* builds a machine whose current state is c and whose initial state is s,
\* also when c differs from s.
C2_BuildWithOverride ==
  (/\ JustBuilt
   /\ LastArg("initial_state") # None
   /\ LastArg("transition") # None
   /\ LastArg("current_state") # None)
  => /\ unwrap(result).tag = "Ok"
     /\ sm = Some(unwrap(result).val)
     /\ machine_current_state(unwrap(sm)) = unwrap(LastArg("current_state"))
     /\ machine_initial_state(unwrap(sm)) = unwrap(LastArg("initial_state"))

C2_Witness ==
  /\ JustBuilt
  /\ LastArg("initial_state") = Some("Shibuya")
  /\ LastArg("current_state") = Some("Sangendyaya")
  /\ LastArg("transition") # None
  /\ sm # None
  /\ machine_current_state(unwrap(sm)) # machine_initial_state(unwrap(sm))

\* C3: build() on a builder that never got initial_state(..) returns
\* MissingField("initial_state") and no machine, whether or not
\* transition(..) was called.
C3_MissingInitialState ==
  (JustBuilt /\ LastArg("initial_state") = None)
  => /\ result = Some(Err(MissingField("initial_state")))
     /\ sm = None

C3_Witness ==
  /\ JustBuilt
  /\ LastArg("initial_state") = None
  /\ LastArg("transition") = None
  /\ result = Some(Err(MissingField("initial_state")))

\* C4: build() on a builder that got initial_state(..) and never
\* transition(..) returns MissingField("transition") and no machine, whether
\* or not current_state(..) was called.
C4_MissingTransition ==
  (/\ JustBuilt
   /\ LastArg("initial_state") # None
   /\ LastArg("transition") = None)
  => /\ result = Some(Err(MissingField("transition")))
     /\ sm = None

C4_Witness ==
  /\ JustBuilt
  /\ LastArg("initial_state") # None
  /\ LastArg("current_state") # None
  /\ LastArg("transition") = None
  /\ result = Some(Err(MissingField("transition")))

\* C5: next(i) on a machine in state s leaves the machine in state f(s, i),
\* where f is the closure the builder was given, returns that state, and
\* leaves the initial state as it was: one application of f per call.
C5_NextAppliesTransitionOnce ==
  [][(last_op'.op = "next" /\ ~panicked' /\ sm # None)
     => /\ sm' # None
        /\ machine_current_state(unwrap(sm')) =
             call(unwrap(LastArg("transition")),
                  machine_current_state(unwrap(sm)), last_op'.arg)
        /\ last_op'.ret = machine_current_state(unwrap(sm'))
        /\ machine_initial_state(unwrap(sm')) = machine_initial_state(unwrap(sm))
        /\ unwrap(sm').transition = unwrap(sm).transition]_vars

C5_Witness ==
  /\ sm # None
  /\ prev_op.op = "next"
  /\ last_op.op = "next"
  /\ prev_op.ret = "IkejiriOhashi"
  /\ last_op.ret = "Sangendyaya"
  /\ machine_current_state(unwrap(sm)) = "Sangendyaya"
  /\ machine_initial_state(unwrap(sm)) = "Shibuya"
  /\ Len(calls) = MaxCalls

\* C6: whatever calls were made on a built machine, its initial state is
\* the argument of the last initial_state(..) call on its builder.
C6_InitialStateNeverChanges ==
  sm # None
  => /\ LastArg("initial_state") # None
     /\ machine_initial_state(unwrap(sm)) = unwrap(LastArg("initial_state"))

C6_Witness ==
  /\ sm # None
  /\ prev_op.op = "next"
  /\ last_op.op = "next"
  /\ Len(calls) = MaxCalls
  /\ LastArg("current_state") = None
  /\ machine_current_state(unwrap(sm)) # machine_initial_state(unwrap(sm))

\* C7: current_state() and initial_state() leave the machine as it was, two
\* current_state() calls in a row return the same value, and a step that
\* changes a built machine is a next(..) call.
C7_InspectionDoesNotMutate ==
  [][/\ (last_op'.op \in {"current_state", "initial_state"} /\ sm # None)
          => /\ sm' = sm
             /\ panicked' = panicked
     /\ (last_op'.op = "current_state" /\ prev_op'.op = "current_state")
          => last_op'.ret = prev_op'.ret
     /\ (sm # None /\ sm' # sm) => last_op'.op = "next"]_vars

C7_Witness ==
  /\ sm # None
  /\ prev_op.op = "current_state"
  /\ last_op.op = "current_state"
  /\ last_op.ret = prev_op.ret
  /\ machine_current_state(unwrap(sm)) # machine_initial_state(unwrap(sm))
  /\ LastArg("current_state") = None

\* Some setter was called twice on the builder with different arguments.
SetTwice(field) ==
  \E i, j \in 1..Len(calls) :
    /\ i < j
    /\ calls[i].field = field
    /\ calls[j].field = field
    /\ calls[i].arg # calls[j].arg

\* C8: a built machine holds, for each builder field, the argument of the
\* last call of that field's setter; an earlier argument is not in it.
C8_SettersOverwrite ==
  (JustBuilt /\ sm # None)
  => /\ machine_initial_state(unwrap(sm)) = unwrap(LastArg("initial_state"))
     /\ unwrap(sm).transition = unwrap(LastArg("transition"))
     /\ machine_current_state(unwrap(sm)) =
          IF LastArg("current_state") # None
            THEN unwrap(LastArg("current_state"))
            ELSE unwrap(LastArg("initial_state"))

C8_Witness ==
  /\ JustBuilt
  /\ sm # None
  /\ SetTwice("current_state")
  /\ machine_current_state(unwrap(sm)) # machine_initial_state(unwrap(sm))

\* One setter call, as recorded in `calls`, applied to a builder.
ApplyCall(self, c) ==
  CASE c.field = "initial_state" -> initial_state(self, c.arg)
    [] c.field = "current_state" -> current_state(self, c.arg)
    [] c.field = "transition" -> transition(self, c.arg)

\* A chain of setter calls applied to a builder, first call first.
RECURSIVE ApplyCalls(_, _)
ApplyCalls(self, cs) ==
  IF cs = << >>
    THEN self
    ELSE ApplyCalls(ApplyCall(self, Head(cs)), Tail(cs))

\* The orders in which the calls of `cs` can be chained.
Orders(cs) ==
  {[i \in 1..Len(cs) |-> cs[p[i]]] :
     p \in {q \in [1..Len(cs) -> 1..Len(cs)] :
              \A i, j \in 1..Len(cs) : i # j => q[i] # q[j]}}

\* No two calls of `cs` are of the same setter.
DistinctFields(cs) ==
  \A i, j \in 1..Len(cs) : i # j => cs[i].field # cs[j].field

\* C9: when the setter calls chained on a builder are of distinct fields,
\* build() returns what it returns for the same calls chained in any other
\* order: the same error, or a machine with the same three fields.
C9_SetterOrderIrrelevant ==
  (JustBuilt /\ DistinctFields(calls))
  => \A cs \in Orders(calls) : unwrap(result) = build(ApplyCalls(start, cs))

C9_Witness ==
  /\ JustBuilt
  /\ sm # None
  /\ Len(calls) = 3
  /\ DistinctFields(calls)
  /\ calls[1].field = "current_state"
  /\ calls[3].field = "initial_state"
  /\ machine_current_state(unwrap(sm)) # machine_initial_state(unwrap(sm))

\* C10: once build() was called on a builder, with either outcome, the
\* caller holds no builder: no setter call and no second build() follows, and
\* what build() returned stays what it is.
C10_BuildConsumesBuilder ==
  [][builds >= 1
     => /\ builder = None
        /\ builder' = None
        /\ builds = 1
        /\ builds' = builds
        /\ calls' = calls
        /\ result' = result]_vars

C10_Witness ==
  /\ builds = 1
  /\ builder = None
  /\ result # None
  /\ unwrap(result).tag = "Err"
  /\ Len(calls) < MaxCalls
  /\ last_op.op = "build"

\* C11: build() returns a machine exactly when initial_state(..) and
\* transition(..) were both called before it; a machine exists only after
\* such a build(); and every error of build() is a MissingField naming
\* "initial_state" or "transition", a field whose setter was never called.
C11_BuildSucceedsIffMandatoryFieldsSet ==
  /\ (sm # None) => (result # None /\ unwrap(result).tag = "Ok")
  /\ (result # None)
       => /\ (unwrap(result).tag = "Ok")
               <=> (LastArg("initial_state") # None
                    /\ LastArg("transition") # None)
          /\ (unwrap(result).tag = "Ok") => sm # None
          /\ (unwrap(result).tag = "Err")
               => /\ unwrap(result).val.variant = "MissingField"
                  /\ unwrap(result).val.field_name
                       \in {"initial_state", "transition"}
                  /\ LastArg(unwrap(result).val.field_name) = None

C11_Witness ==
  /\ JustBuilt
  /\ unwrap(result) = Err(MissingField("transition"))
  /\ LastArg("initial_state") # None
  /\ LastArg("current_state") # None
  /\ Len(calls) = 3

\* C12: start() returns a builder with its three fields unset, and build()
\* right after start() returns MissingField("initial_state") and no machine.
C12_StartIsEmpty ==
  /\ (last_op.op = "start")
       => /\ builder # None
          /\ unwrap(builder).initial_state = None
          /\ unwrap(builder).current_state = None
          /\ unwrap(builder).transition = None
  /\ (prev_op.op = "start" /\ last_op.op = "build")
       => /\ result = Some(Err(MissingField("initial_state")))
          /\ sm = None

C12_Witness ==
  /\ prev_op.op = "start"
  /\ last_op.op = "build"
  /\ calls = << >>
  /\ result = Some(Err(MissingField("initial_state")))

\* C15: build() on a builder given current_state(c) and transition(f) and
\* never initial_state(..) returns MissingField("initial_state"); there is
\* no machine, and the builder with its recorded override is gone.
C15_OverrideIsNoInitialState ==
  (/\ JustBuilt
   /\ LastArg("current_state") # None
   /\ LastArg("transition") # None
   /\ LastArg("initial_state") = None)
  => /\ result = Some(Err(MissingField("initial_state")))
     /\ sm = None
     /\ builder = None

C15_Witness ==
  /\ JustBuilt
  /\ LastArg("current_state") = Some("Sangendyaya")
  /\ LastArg("transition") = Some("station_transition")
  /\ LastArg("initial_state") = None
  /\ unwrap(result).tag = "Err"

\* The builder has none, some or all of its mandatory fields recorded.
BuilderState(self) ==
  IF self.initial_state # None /\ self.transition # None
    THEN "Configured"
    ELSE IF self.initial_state = None /\ self.current_state = None
            /\ self.transition = None
      THEN "Empty"
      ELSE "PartiallyConfigured"

\* C16: a setter call records its argument in its own field and leaves the
\* builder's two other fields as they were, whatever was recorded before.
C16_SettersChangeOwnFieldOnly ==
  [][(builder # None /\ builder' # None)
     => /\ (last_op'.op = "set_initial_state")
             => /\ unwrap(builder').initial_state = Some(last_op'.arg)
                /\ unwrap(builder').current_state = unwrap(builder).current_state
                /\ unwrap(builder').transition = unwrap(builder).transition
        /\ (last_op'.op = "set_current_state")
             => /\ unwrap(builder').current_state = Some(last_op'.arg)
                /\ unwrap(builder').initial_state = unwrap(builder).initial_state
                /\ unwrap(builder').transition = unwrap(builder).transition
        /\ (last_op'.op = "set_transition")
             => /\ unwrap(builder').transition = Some(last_op'.arg)
                /\ unwrap(builder').initial_state = unwrap(builder).initial_state
                /\ unwrap(builder').current_state = unwrap(builder).current_state]_vars

C16_Witness ==
  /\ builder # None
  /\ BuilderState(unwrap(builder)) = "Configured"
  /\ prev_op.op = "set_transition"
  /\ last_op.op = "set_current_state"
  /\ Len(calls) = 4
  /\ calls[1].field = "current_state"
  /\ unwrap(builder).current_state = Some(last_op.arg)
  /\ unwrap(builder).initial_state # Some(last_op.arg)

\* C14: when the closure faults on (current state, input), next(input)
\* ends in that fault: the caller is unwound, next() returns no state, the
\* machine holds what it held, and what build() returned is no MissingField
\* error and stays what it was.
C14_TransitionFaultPropagates ==
  [][(/\ sm # None
      /\ ~panicked
      /\ last_op'.op = "next"
      /\ call(unwrap(LastArg("transition")),
              machine_current_state(unwrap(sm)), last_op'.arg) = Panic)
     => /\ panicked'
        /\ last_op'.ret = Panic
        /\ last_op'.ret \notin Stations
        /\ sm' = sm
        /\ result' = result
        /\ unwrap(result').tag = "Ok"]_vars

C14_Witness ==
  /\ panicked
  /\ sm # None
  /\ prev_op.op = "next"
  /\ prev_op.ret = "IkejiriOhashi"
  /\ last_op = [op |-> "next", arg |-> "Express", ret |-> Panic]
  /\ machine_current_state(unwrap(sm)) = "IkejiriOhashi"

\* ------------------------------------------------------------------------
\* A caller driving a StateWrapper of its own
\* ------------------------------------------------------------------------

\* StateWrapper::new(state)
HolderNew ==
  /\ \E state \in Stations :
       /\ holder' = Some(StateWrapper_new(state))
       /\ last_op' = [op |-> "new", arg |-> state, ret |-> "holder"]
  /\ prev_op' = last_op
  /\ UNCHANGED <<started, builder, calls, builds, result, sm, panicked, twin>>

\* set(state) on the cell
HolderSet ==
  /\ holder # None
  /\ \E state \in Stations :
       /\ holder' = Some(StateWrapper_set(unwrap(holder), state))
       /\ last_op' = [op |-> "set", arg |-> state, ret |-> "none"]
  /\ prev_op' = last_op
  /\ UNCHANGED <<started, builder, calls, builds, result, sm, panicked, twin>>

\* current() on the cell: hands out a duplicate of the contained state
HolderCurrent ==
  /\ holder # None
  /\ holder' = holder
  /\ last_op' = [op |-> "current", arg |-> "none",
                 ret |-> StateWrapper_get(unwrap(holder))]
  /\ prev_op' = last_op
  /\ UNCHANGED <<started, builder, calls, builds, result, sm, panicked, twin>>

NextHolder ==
  \/ HolderNew
  \/ HolderSet
  \/ HolderCurrent

SpecHolder == Init /\ [][NextHolder]_vars

\* C13: the cell holds one state at any time: after new(s) it holds s, after
\* set(t) it holds t and nothing else, and current() returns what it holds
\* and leaves it there, so a current() after a new(s) or set(t) returns s or
\* t.
C13_HolderHoldsOneState ==
  [][/\ holder' # None => StateWrapper_get(unwrap(holder')) \in Stations
     /\ (last_op'.op \in {"new", "set"})
          => holder' = Some(StateWrapper_new(last_op'.arg))
     /\ (last_op'.op = "current")
          => /\ holder' = holder
             /\ last_op'.ret = StateWrapper_get(unwrap(holder))
             /\ (last_op.op \in {"new", "set"}) => last_op'.ret = last_op.arg
             /\ (last_op.op = "current") => last_op'.ret = last_op.ret]_vars

C13_Witness ==
  /\ holder = Some(StateWrapper_new("Yoga"))
  /\ prev_op = [op |-> "set", arg |-> "Yoga", ret |-> "none"]
  /\ last_op = [op |-> "current", arg |-> "none", ret |-> "Yoga"]

\* ------------------------------------------------------------------------
\* A caller driving two machines with the same inputs
\* ------------------------------------------------------------------------

\* Two builders given the same override and the same closure and different
\* initial states, both built.
TwinBuild ==
  /\ sm = None
  /\ twin = None
  /\ \E s1, s2, c \in StateArgs, t \in Transitions :
       LET r1 == build(transition(current_state(initial_state(start, s1), c), t))
           r2 == build(transition(current_state(initial_state(start, s2), c), t))
       IN /\ s1 # s2
          /\ r1.tag = "Ok"
          /\ r2.tag = "Ok"
          /\ result' = Some(r1)
          /\ sm' = Some(r1.val)
          /\ twin' = Some([sm |-> r2.val, ret |-> "none"])
          /\ last_op' = [op |-> "build", arg |-> "none", ret |-> r1.tag]
  /\ prev_op' = last_op
  /\ UNCHANGED <<started, builder, calls, builds, panicked, holder>>

\* next(input) on both machines, with the same input.
TwinNext ==
  /\ sm # None
  /\ twin # None
  /\ ~panicked
  /\ \E input \in Train :
       LET n1 == call(unwrap(sm).transition,
                      machine_current_state(unwrap(sm)), input)
           n2 == call(unwrap(twin).sm.transition,
                      machine_current_state(unwrap(twin).sm), input)
       IN /\ sm' = IF n1 = Panic THEN sm ELSE Some(next(unwrap(sm), input))
          /\ twin' = Some([sm |-> IF n2 = Panic
                                    THEN unwrap(twin).sm
                                    ELSE next(unwrap(twin).sm, input),
                           ret |-> n2])
          /\ panicked' = (n1 = Panic \/ n2 = Panic)
          /\ last_op' = [op |-> "next", arg |-> input, ret |-> n1]
  /\ prev_op' = last_op
  /\ UNCHANGED <<started, builder, calls, builds, result, holder>>

NextTwin ==
  \/ TwinBuild
  \/ TwinNext

SpecTwin == Init /\ [][NextTwin]_vars

\* C17: two machines built with the same closure and the same override and
\* different initial states, given the same inputs, have the same current
\* state after build() and after every next(..), which returns the same to
\* both; their initial states stay different.
C17_InitialStateDoesNotInfluence ==
  (sm # None /\ twin # None)
  => /\ machine_current_state(unwrap(sm)) =
          machine_current_state(unwrap(twin).sm)
     /\ (last_op.op = "next") => last_op.ret = unwrap(twin).ret
     /\ unwrap(sm).transition = unwrap(twin).sm.transition
     /\ machine_initial_state(unwrap(sm)) #
          machine_initial_state(unwrap(twin).sm)

C17_Witness ==
  /\ sm # None
  /\ twin # None
  /\ prev_op.op = "next"
  /\ last_op.op = "next"
  /\ machine_initial_state(unwrap(sm)) = "Shibuya"
  /\ machine_initial_state(unwrap(twin).sm) = "Yoga"
  /\ machine_current_state(unwrap(sm)) = "FutakoTamagawa"
  /\ machine_current_state(unwrap(twin).sm) = "FutakoTamagawa"
  /\ unwrap(sm).transition = "station_transition"

====
